---- MODULE Spec2Model ----
(***************************************************************************)
(* Model of src/contests/2110/A/main.cpp: a read-process-output loop over  *)
(* t test cases.  Each test case reads n and a vector a of n ints, scans   *)
(* a for the min/max of its even and of its odd elements, counts for each  *)
(* detected parity the elements lying outside that parity's [min, max],    *)
(* and prints the smaller count.                                           *)
(***************************************************************************)
EXTENDS Integers, Sequences, FiniteSets, TLC

\* <climits>: the limits of the element type int (32 bits).
INT_MAX == 2147483647
INT_MIN == (-2147483647) - 1

(***************************************************************************)
(* Bounds of the explored inputs.                                          *)
(***************************************************************************)
\* longest sequence of a single-test-case input
MaxLen == 4
\* most test cases in a batch input
MaxT == 2
\* longest sequence of a test case in a batch input
MaxBatchLen == 2

\* element values of single-test-case inputs: both limits of int, a
\* negative odd value and small values of both parities
Vals == {INT_MIN, -1, 1, 2, 3, 4, INT_MAX}
\* element values of batch inputs
BatchVals == {1, 2, 3}

SeqsUpTo(S, k) == UNION {[1..m -> S] : m \in 0..k}

\* the sequences the specification's examples name
Examples == {<<1, 2, 3>>, <<2, 4, 6, 8>>, <<1, 3, 5, 2, 4>>}

\* the token stream of one test case: n, then the n elements
CaseTokens(s) == <<Len(s)>> \o s

RECURSIVE BatchTokens(_)
BatchTokens(b) == IF b = <<>> THEN <<>>
                  ELSE CaseTokens(Head(b)) \o BatchTokens(Tail(b))

\* a well-formed input: t, then t test cases
Stream(b) == <<Len(b)>> \o BatchTokens(b)

SoloInputs == {Stream(<<s>>) : s \in SeqsUpTo(Vals, MaxLen) \cup Examples}
\* batches of test cases of at most one element, INT_MAX among the values
SentinelBatches == SeqsUpTo(SeqsUpTo({2, INT_MAX}, 1), MaxT)
BatchInputs ==
    {Stream(b) : b \in SeqsUpTo(SeqsUpTo(BatchVals, MaxBatchLen), MaxT)
                       \cup SentinelBatches}

VARIABLES
    stdin,       \* the whole input token stream
    pos,         \* number of tokens of stdin consumed so far
    pc,          \* position of main
    t,           \* int t (line 12)
    n,           \* int n (line 15)
    a,           \* vector<int> a (line 18)
    minEven, maxEven, minOdd, maxOdd,   \* lines 21-22
    ans,         \* int ans (line 35)
    evenRan,     \* the block of line 38 was entered for this test case
    removeEven,  \* int remove of the block of lines 38-46
    oddRan,      \* the block of line 49 was entered for this test case
    removeOdd,   \* int remove of the block of lines 49-59
    output       \* the lines written to cout, in order

vars == <<stdin, pos, pc, t, n, a, minEven, maxEven, minOdd, maxOdd, ans,
          evenRan, removeEven, oddRan, removeOdd, output>>

(***************************************************************************)
(* Pure helpers, as the code computes them.                                *)
(***************************************************************************)
\* std::min(x, y): y when y < x, else x
Min2Max(x, y) == IF y < x THEN x ELSE y
Min2(x, y) == IF y < x THEN y ELSE x

\* std::max(x, y): y when x < y, else x
Max2Min(x, y) == IF x < y THEN x ELSE y
Max2(x, y) == IF x < y THEN y ELSE x

\* x & 1 on a two's complement int: 1 exactly for the odd values, negative
\* ones included
IsOddSignedRem(x) == x > 0 /\ x % 2 = 1
IsOdd(x) == x % 2 = 1

\* lines 21-22: the values the four trackers are set to before the scan
ScanInitStale == [minEven |-> minEven, maxEven |-> maxEven,
                  minOdd |-> minOdd, maxOdd |-> maxOdd]
ScanInit == [minEven |-> INT_MAX, maxEven |-> INT_MIN,
             minOdd |-> INT_MAX, maxOdd |-> INT_MIN]

\* lines 26-32: the body of the scan loop for one element x
ScanStep(s, x) ==
    IF IsOdd(x)
    THEN [s EXCEPT !.minOdd = Min2(s.minOdd, x), !.maxOdd = Max2(s.maxOdd, x)]
    ELSE [s EXCEPT !.minEven = Min2(s.minEven, x), !.maxEven = Max2(s.maxEven, x)]

\* lines 25-33: for (int x : a), from index i on
RECURSIVE ScanFrom(_, _, _)
ScanFrom(s, v, i) == IF i > Len(v) THEN s
                     ELSE ScanFrom(ScanStep(s, v[i]), v, i + 1)

\* lines 41 and 53: the test that counts x as removed
OutsideBelowOnly(x, lo, hi) == x < lo
OutsideClosed(x, lo, hi) == x <= lo \/ x >= hi
Outside(x, lo, hi) == x < lo \/ x > hi

\* lines 39-44 and 50-57: remove = 0; for (int x : a) if (outside) remove++
RECURSIVE CountFrom(_, _, _, _)
CountFrom(v, lo, hi, i) ==
    IF i > Len(v) THEN 0
    ELSE (IF Outside(v[i], lo, hi) THEN 1 ELSE 0) + CountFrom(v, lo, hi, i + 1)

(***************************************************************************)
(* The state after construction: nothing read, nothing written.            *)
(***************************************************************************)
InitLocals ==
    /\ pos = 0
    /\ pc = "read_t"
    /\ t = 0 /\ n = 0 /\ a = <<>>
    /\ minEven = INT_MAX /\ maxEven = INT_MIN
    /\ minOdd = INT_MAX /\ maxOdd = INT_MIN
    /\ ans = 0
    /\ evenRan = FALSE /\ removeEven = 0
    /\ oddRan = FALSE /\ removeOdd = 0
    /\ output = <<>>

Init == stdin \in SoloInputs \cup BatchInputs /\ InitLocals

BatchInit == stdin \in BatchInputs /\ InitLocals

(***************************************************************************)
(* Actions: one per statement block of main.                               *)
(***************************************************************************)
\* line 13: cin >> t
ReadT ==
    /\ pc = "read_t"
    /\ t' = stdin[pos + 1]
    /\ pos' = pos + 1
    /\ pc' = "loop"
    /\ UNCHANGED <<stdin, n, a, minEven, maxEven, minOdd, maxOdd, ans,
                   evenRan, removeEven, oddRan, removeOdd, output>>

\* line 14: while (t--): the test reads t, the decrement happens either way
LoopTestOffByOne ==
    /\ pc = "loop"
    /\ t' = t - 1
    /\ pc' = IF t > 1 THEN "read_case" ELSE "done"
    /\ UNCHANGED <<stdin, pos, n, a, minEven, maxEven, minOdd, maxOdd, ans,
                   evenRan, removeEven, oddRan, removeOdd, output>>
LoopTest ==
    /\ pc = "loop"
    /\ t' = t - 1
    /\ pc' = IF t # 0 THEN "read_case" ELSE "done"
    /\ UNCHANGED <<stdin, pos, n, a, minEven, maxEven, minOdd, maxOdd, ans,
                   evenRan, removeEven, oddRan, removeOdd, output>>

\* lines 15-19: cin >> n; vector<int> a(n); for (int &x : a) cin >> x
ReadCase ==
    /\ pc = "read_case"
    /\ n' = stdin[pos + 1]
    /\ a' = SubSeq(stdin, pos + 2, pos + 1 + stdin[pos + 1])
    /\ pos' = pos + 1 + stdin[pos + 1]
    /\ pc' = "scan"
    /\ UNCHANGED <<stdin, t, minEven, maxEven, minOdd, maxOdd, ans,
                   evenRan, removeEven, oddRan, removeOdd, output>>

\* lines 21-33: initialise the four trackers and scan a
Scan ==
    /\ pc = "scan"
    /\ LET s == ScanFrom(ScanInit, a, 1)
       IN /\ minEven' = s.minEven
          /\ maxEven' = s.maxEven
          /\ minOdd' = s.minOdd
          /\ maxOdd' = s.maxOdd
    /\ pc' = "init_ans"
    /\ UNCHANGED <<stdin, pos, t, n, a, ans, evenRan, removeEven, oddRan,
                   removeOdd, output>>

\* line 35: int ans = n
InitAns ==
    /\ pc = "init_ans"
    /\ ans' = n
    /\ pc' = "even"
    /\ UNCHANGED <<stdin, pos, t, n, a, minEven, maxEven, minOdd, maxOdd,
                   evenRan, removeEven, oddRan, removeOdd, output>>

\* lines 38-46: the even candidate
EvenPass ==
    /\ pc = "even"
    /\ IF minEven # INT_MAX
       THEN /\ evenRan' = TRUE
            /\ removeEven' = CountFrom(a, minEven, maxEven, 1)
            /\ ans' = Min2(ans, CountFrom(a, minEven, maxEven, 1))
       ELSE /\ evenRan' = FALSE
            /\ UNCHANGED <<removeEven, ans>>
    /\ pc' = "odd"
    /\ UNCHANGED <<stdin, pos, t, n, a, minEven, maxEven, minOdd, maxOdd,
                   oddRan, removeOdd, output>>

\* lines 49-59: the odd candidate
OddPass ==
    /\ pc = "odd"
    /\ IF minOdd # INT_MAX
       THEN /\ oddRan' = TRUE
            /\ removeOdd' = CountFrom(a, minOdd, maxOdd, 1)
            /\ ans' = Min2(ans, CountFrom(a, minOdd, maxOdd, 1))
       ELSE /\ oddRan' = FALSE
            /\ UNCHANGED <<removeOdd, ans>>
    /\ pc' = "print"
    /\ UNCHANGED <<stdin, pos, t, n, a, minEven, maxEven, minOdd, maxOdd,
                   evenRan, removeEven, output>>

\* line 60: cout << ans << '\n', then back to the loop test
PrintAns ==
    /\ pc = "print"
    /\ output' = Append(output, ans)
    /\ pc' = "loop"
    /\ UNCHANGED <<stdin, pos, t, n, a, minEven, maxEven, minOdd, maxOdd, ans,
                   evenRan, removeEven, oddRan, removeOdd>>

Next ==
    \/ ReadT
    \/ LoopTest
    \/ ReadCase
    \/ Scan
    \/ InitAns
    \/ EvenPass
    \/ OddPass
    \/ PrintAns

Spec == Init /\ [][Next]_vars

\* main runs to completion: no statement of it blocks on well-formed input
FairBatchSpec == BatchInit /\ [][Next]_vars /\ WF_vars(Next)

TypeOK ==
    /\ pc \in {"read_t", "loop", "read_case", "scan", "init_ans", "even",
               "odd", "print", "done"}
    /\ pos \in 0..Len(stdin)
    /\ n = Len(a)
    /\ ans \in Nat
    /\ removeEven \in Nat /\ removeOdd \in Nat
    /\ evenRan \in BOOLEAN /\ oddRan \in BOOLEAN

(***************************************************************************)
(* Vocabulary of the properties, defined on the input alone.               *)
(***************************************************************************)
\* the values of v of parity p (0 even, 1 odd)
OfParity(v, p) == {v[i] : i \in {j \in DOMAIN v : v[j] % 2 = p}}

\* the parities that occur in v
Present(v) == {p \in {0, 1} : OfParity(v, p) # {}}

SetMin(S) == CHOOSE m \in S : \A y \in S : m <= y
SetMax(S) == CHOOSE m \in S : \A y \in S : y <= m

\* number of elements of v of parity p
NumParity(v, p) == Cardinality({i \in DOMAIN v : v[i] % 2 = p})

\* number of elements of v outside [lo, hi]
NumOutside(v, lo, hi) == Cardinality({i \in DOMAIN v : v[i] < lo \/ v[i] > hi})

\* number of elements of v outside the value range of its parity-p elements
RangeRemoval(v, p) == NumOutside(v, SetMin(OfParity(v, p)), SetMax(OfParity(v, p)))

\* the parities of v whose smallest element is not INT_MAX
Detected(v) == {p \in Present(v) : SetMin(OfParity(v, p)) # INT_MAX}

\* the smallest range removal over the detected parities, Len(v) when none
RangeAnswer(v) ==
    IF Detected(v) = {} THEN Len(v)
    ELSE SetMin({RangeRemoval(v, p) : p \in Detected(v)})

\* no element of v is INT_MIN or INT_MAX
SentinelFree(v) == \A i \in DOMAIN v : INT_MIN < v[i] /\ v[i] < INT_MAX

\* the last line written
Printed == output[Len(output)]

\* the answer of the test case held in a has just been written
JustPrinted == pc \in {"loop", "done"} /\ Len(output) >= 1

\* the scan of the test case held in a is over
Scanned == pc \in {"init_ans", "even", "odd", "print"} \/ JustPrinted

\* both candidate blocks of the test case held in a are over
Counted == pc = "print" \/ JustPrinted

\* index in stdin of the token n of the i-th test case
RECURSIVE CaseStart(_)
CaseStart(i) == IF i = 1 THEN 2
                ELSE CaseStart(i - 1) + 1 + stdin[CaseStart(i - 1)]

\* the sequence of the i-th test case of the input
CaseAt(i) == SubSeq(stdin, CaseStart(i) + 1, CaseStart(i) + stdin[CaseStart(i)])

(***************************************************************************)
(* C1 as stated: for every non-empty sequence the printed value is the     *)
(* minimum, over the parities that occur in it, of the number of elements  *)
(* of the opposite parity; for [1,3,5,2,4] it is 2.  Stated here on the    *)
(* sequences without INT_MIN and INT_MAX, so that its failure owes nothing *)
(* to the INT_MAX collision of C3 and C7.                                  *)
(***************************************************************************)
C1_OppositeParityCount ==
    (JustPrinted /\ Len(a) >= 1 /\ SentinelFree(a)) =>
        /\ Printed = SetMin({Len(a) - NumParity(a, p) : p \in Present(a)})
        /\ (a = <<1, 3, 5, 2, 4>> => Printed = 2)

(***************************************************************************)
(* C1 amended: for every non-empty sequence the printed value is the       *)
(* minimum, over the parities that occur in it with a smallest element     *)
(* other than INT_MAX, of the number of elements lying outside [min, max]  *)
(* of that parity's elements, and n when there is no such parity; for      *)
(* [1,3,5,2,4] it is 0.                                                    *)
(***************************************************************************)
C1_RangeCount ==
    (JustPrinted /\ Len(a) >= 1) =>
        /\ Printed = RangeAnswer(a)
        /\ (a = <<1, 3, 5, 2, 4>> => Printed = 0)

C1_Witness == JustPrinted /\ a = <<1, 3, 5, 2, 4>> /\ Printed = 0

(***************************************************************************)
(* C2 as stated: for [1,2,3] keeping the odd partition removes 1, keeping  *)
(* the even partition removes 2, and the printed answer is 1.              *)
(***************************************************************************)
C2_Example123Stated ==
    (JustPrinted /\ a = <<1, 2, 3>>) =>
        /\ oddRan /\ removeOdd = 1
        /\ evenRan /\ removeEven = 2
        /\ Printed = 1

(***************************************************************************)
(* C2 amended: for [1,2,3] keeping the odd partition removes 0 (the 2      *)
(* lies inside [1,3]), keeping the even partition removes 2, and the       *)
(* printed answer is 0.                                                    *)
(***************************************************************************)
C2_Example123 ==
    (JustPrinted /\ a = <<1, 2, 3>>) =>
        /\ oddRan /\ removeOdd = 0
        /\ evenRan /\ removeEven = 2
        /\ Printed = 0

C2_Witness == JustPrinted /\ a = <<1, 2, 3>> /\ minOdd = 1 /\ maxOdd = 3
              /\ minEven = 2 /\ maxEven = 2

(***************************************************************************)
(* C3: for every sequence of length 1, whatever the int value of its       *)
(* element (INT_MIN and INT_MAX included), the printed answer is 0.        *)
(***************************************************************************)
C3_SingletonZero == (JustPrinted /\ Len(a) = 1) => Printed = 0

(***************************************************************************)
(* C4: for every non-empty sequence whose elements all have the same       *)
(* parity the printed answer is 0, and the absent parity contributes no    *)
(* candidate.                                                              *)
(***************************************************************************)
C4_SingleParityZero ==
    (JustPrinted /\ Len(a) >= 1 /\ Cardinality(Present(a)) = 1) =>
        /\ Printed = 0
        /\ (0 \notin Present(a) => ~evenRan)
        /\ (1 \notin Present(a) => ~oddRan)

(***************************************************************************)
(* C5: on a well-formed input with t >= 0 test cases main terminates,      *)
(* having consumed exactly the t test cases and written exactly t lines;   *)
(* every line is written while the test case of the same index is the one  *)
(* held in a and is the ans computed for it, and when the next test case   *)
(* is about to be read every earlier answer has been written.              *)
(***************************************************************************)
C5_TerminatesWithTLines ==
    /\ <>(pc = "done")
    /\ [](pc = "done" => Len(output) = stdin[1] /\ pos = Len(stdin))
    /\ [](pc = "read_case" => Len(output) = stdin[1] - t - 1
                              /\ pos + 1 = CaseStart(Len(output) + 1))
    /\ [][output' # output =>
            /\ output' = Append(output, ans)
            /\ a = CaseAt(Len(output'))
            /\ Len(output') = stdin[1] - t]_vars

C5_Witness == pc = "done" /\ stdin[1] = MaxT /\ Len(output) = MaxT
              /\ CaseAt(1) # CaseAt(2)

(***************************************************************************)
(* C6: the line printed for a test case is a function of its sequence      *)
(* alone: at every position of every batch it is the value RangeAnswer     *)
(* gives for the sequence at that position, whatever was processed before, *)
(* so equal sequences get equal answers.                                   *)
(***************************************************************************)
C6_AnswerDependsOnCaseOnly ==
    /\ \A i \in 1..Len(output) : output[i] = RangeAnswer(CaseAt(i))
    /\ \A i, j \in 1..Len(output) :
          CaseAt(i) = CaseAt(j) => output[i] = output[j]

\* the second test case has no odd element bounding its range from above,
\* the first one left maxOdd = 3 behind
C6_Witness == /\ Len(output) = 2
              /\ CaseAt(1) = <<3>> /\ CaseAt(2) = <<1, 2>>
              /\ output = <<0, 1>>

(***************************************************************************)
(* C7: after the scan a parity is treated as absent (its candidate is      *)
(* skipped) exactly when the sequence has no element of that parity, and   *)
(* when it is present the trackers hold the true minimum and maximum of    *)
(* that parity's elements; for every int value, INT_MAX included.          *)
(***************************************************************************)
C7_AbsentIffNoElement ==
    /\ Scanned =>
          /\ (minEven = INT_MAX <=> 0 \notin Present(a))
          /\ (minOdd = INT_MAX <=> 1 \notin Present(a))
          /\ (0 \in Present(a) => /\ minEven = SetMin(OfParity(a, 0))
                                  /\ maxEven = SetMax(OfParity(a, 0)))
          /\ (1 \in Present(a) => /\ minOdd = SetMin(OfParity(a, 1))
                                  /\ maxOdd = SetMax(OfParity(a, 1)))
    /\ Counted =>
          /\ (evenRan <=> 0 \in Present(a))
          /\ (oddRan <=> 1 \in Present(a))

(***************************************************************************)
(* C8: the removal count computed for a parity is the number of elements   *)
(* of the whole sequence below the minimum or above the maximum of that    *)
(* parity's elements; no element of that parity is counted, so every       *)
(* counted element has the opposite parity and the count is at most the    *)
(* number of opposite-parity elements.                                     *)
(***************************************************************************)
C8_CountsOnlyOppositeParity ==
    Counted =>
        /\ evenRan =>
              /\ 0 \in Present(a)
              /\ removeEven = RangeRemoval(a, 0)
              /\ \A i \in DOMAIN a :
                    (a[i] < minEven \/ a[i] > maxEven) => a[i] % 2 = 1
              /\ removeEven <= NumParity(a, 1)
        /\ oddRan =>
              /\ 1 \in Present(a)
              /\ removeOdd = RangeRemoval(a, 1)
              /\ \A i \in DOMAIN a :
                    (a[i] < minOdd \/ a[i] > maxOdd) => a[i] % 2 = 0
              /\ removeOdd <= NumParity(a, 0)

\* both counts computed and positive, the odd one leaving an even element
\* inside the odd range uncounted
C8_Witness == /\ Counted /\ evenRan /\ oddRan
              /\ removeEven >= 1
              /\ removeOdd >= 1 /\ removeOdd < NumParity(a, 0)

(***************************************************************************)
(* C9: for every non-empty sequence without INT_MIN and INT_MAX the        *)
(* printed answer is n minus the size of a largest non-empty               *)
(* sub-multiset whose minimum and maximum have the same parity.            *)
(***************************************************************************)
\* the index sets of v whose smallest and largest value agree in parity
Keepable(v) ==
    {S \in SUBSET (DOMAIN v) :
        /\ S # {}
        /\ SetMin({v[i] : i \in S}) % 2 = SetMax({v[i] : i \in S}) % 2}

MaxKeep(v) == SetMax({Cardinality(S) : S \in Keepable(v)})

C9_BruteForceOptimum ==
    (JustPrinted /\ Len(a) >= 1 /\ SentinelFree(a)) =>
        Printed = Len(a) - MaxKeep(a)

\* something must go, yet less than either whole parity class
C9_Witness == /\ JustPrinted /\ SentinelFree(a)
              /\ Present(a) = {0, 1}
              /\ Printed >= 1
              /\ Printed < NumParity(a, 0) /\ Printed < NumParity(a, 1)

(***************************************************************************)
(* C10: for every non-empty sequence without INT_MIN and INT_MAX the       *)
(* printed answer is 0 exactly when the overall minimum and the overall    *)
(* maximum have the same parity, and 0 <= ans <= n - 1 always.             *)
(***************************************************************************)
C10_ZeroIffEndsAgree ==
    (JustPrinted /\ Len(a) >= 1 /\ SentinelFree(a)) =>
        LET all == {a[i] : i \in DOMAIN a}
        IN /\ (Printed = 0 <=> SetMin(all) % 2 = SetMax(all) % 2)
           /\ 0 <= Printed /\ Printed <= Len(a) - 1

\* the ends disagree in parity, one of them negative
C10_Witness == /\ JustPrinted /\ SentinelFree(a) /\ Len(a) >= 2
               /\ Printed >= 1
               /\ \E i \in DOMAIN a : a[i] < 0
====
